---- MODULE Spec2Model ----
(***************************************************************************)
(* Model of ConvertLeicaSCN400F.cc: the conversion of a Leica SCN400F      *)
(* container into one raw plane file per channel of each field.            *)
(*                                                                         *)
(* The program is main(): it opens the container, parses the XML           *)
(* description of the first directory, builds the three parallel vectors   *)
(* channelID / TIFFDirectories / ImageNo (the selection list), and then    *)
(* walks the remaining directories once, decoding and writing the ones     *)
(* whose position is in TIFFDirectories.                                   *)
(*                                                                         *)
(* The XML description is the record doc.  The libtiff, libxml2, allocator *)
(* and file-system calls are the environment: their outcomes are chosen    *)
(* by \E at the step that makes the call.  Pixel values and the width and  *)
(* height of a directory are not modelled; a written file is identified by *)
(* the directory it was read from and the field and channel in its name.   *)
(* The description is taken to contain the "<scn" tag and every view and   *)
(* dimension element to carry its numeric attributes.                      *)
(***************************************************************************)
EXTENDS Integers, Sequences, FiniteSets

(***************************************************************************)
(* Bounds of the explored inputs.                                          *)
(***************************************************************************)
MaxViews == 2
MaxViewImages == 1
MaxImages == 2
MaxDims == 2
MaxIfd == 2
MaxDirs == 3

BoundedSeq(S, n) == UNION {[1..k -> S] : k \in 0..n}

\* Values of argc, of a sizeX or sizeY attribute (two values: equal to the
\* collection's or not), of an r attribute (0 or not) and of a c attribute
\* (the three channels the switch on channelID knows).
ArgCounts == {2, 3}
SizeVals == {1, 2}
RVals == {0, 1}
Channels == {0, 1, 2}

(***************************************************************************)
(* The elements of the XML description.                                    *)
(***************************************************************************)
SizeElement == [sizeX : SizeVals, sizeY : SizeVals]
Dimension == [r : RVals, c : Channels, ifd : 1..MaxIfd]

\* The images whose only dimension element is the r=0, c=0 element with the
\* given ifd.
OneDimension(ifd) == <<[r |-> 0, c |-> 0, ifd |-> ifd]>>

\* Documents that vary the views of an image: any collection, up to
\* MaxViewImages images, each with up to MaxViews views and one dimension.
ViewDocuments ==
  {[collection |-> <<col>>, images |-> ims] :
     col \in SizeElement,
     ims \in BoundedSeq([views : BoundedSeq(SizeElement, MaxViews),
                         dimensions : {OneDimension(1)}], MaxViewImages)}

\* Sequences of up to MaxImages images, each with at most one view and with
\* one dimension whose ifd is the image's ordinal.
OrdinalImages ==
  {[j \in 1..Len(vs) |-> [views |-> vs[j], dimensions |-> OneDimension(j)]] :
     vs \in BoundedSeq(BoundedSeq(SizeElement, 1), MaxImages)}

\* Documents that vary the images: any collection and such a sequence.
ImageDocuments ==
  {[collection |-> <<col>>, images |-> ims] :
     col \in SizeElement, ims \in OrdinalImages}

\* Documents that vary the dimensions: a 1 x 1 collection and at most one
\* image, with a 2 x 2 view and up to MaxDims dimension elements of any r, c
\* and ifd.
DimensionDocuments ==
  {[collection |-> <<[sizeX |-> 1, sizeY |-> 1]>>, images |-> ims] :
     ims \in BoundedSeq([views : {<<[sizeX |-> 2, sizeY |-> 2]>>},
                         dimensions : BoundedSeq(Dimension, MaxDims)], 1)}

\* Documents without a collection element.
NoCollectionDocuments ==
  {[collection |-> <<>>, images |-> ims] : ims \in OrdinalImages}

Documents ==
  ViewDocuments \cup ImageDocuments \cup DimensionDocuments
    \cup NoCollectionDocuments

VARIABLES doc, pc, exitcode, xcollection, ycollection, jj, icount,
          channelID, TIFFDirectories, ImageNo,
          iTIFFdir, flag_dir, iwrite, raster, image,
          allocated, decoded, files

vars == <<doc, pc, exitcode, xcollection, ycollection, jj, icount,
          channelID, TIFFDirectories, ImageNo,
          iTIFFdir, flag_dir, iwrite, raster, image,
          allocated, decoded, files>>

selection == <<channelID, TIFFDirectories, ImageNo>>
resolver == <<xcollection, ycollection, jj, icount>>
scanner == <<iTIFFdir, flag_dir, iwrite>>
buffers == <<raster, image>>
effects == <<allocated, decoded, files>>

Terminated == pc \in {"exited", "killed"}

Init ==
  /\ doc \in Documents
  /\ pc = "start"
  /\ exitcode = 0
  /\ xcollection = 0
  /\ ycollection = 0
  /\ jj = 0
  /\ icount = 0
  /\ channelID = <<>>
  /\ TIFFDirectories = <<>>
  /\ ImageNo = <<>>
  /\ iTIFFdir = 0
  /\ flag_dir = FALSE
  /\ iwrite = 0
  /\ raster = "none"
  /\ image = "none"
  /\ allocated = <<>>
  /\ decoded = <<>>
  /\ files = <<>>

\* exit(code) and return code from main: the process ends with code; nothing
\* else is touched (the atexit handlers only print).
Exit(code) ==
  /\ pc' = "exited"
  /\ exitcode' = code

\* main's argument check.
Start ==
  /\ pc = "start"
  /\ \E argc \in ArgCounts :
       IF argc # 3 THEN Exit(-1)
       ELSE pc' = "open" /\ UNCHANGED exitcode
  /\ UNCHANGED <<doc, resolver, selection, scanner, buffers, effects>>

\* TIFFOpen.
Open ==
  /\ pc = "open"
  /\ \E opened \in BOOLEAN :
       IF opened THEN pc' = "parse" /\ UNCHANGED exitcode
       ELSE Exit(1)
  /\ UNCHANGED <<doc, resolver, selection, scanner, buffers, effects>>

\* TIFFGetField(IMAGEDESCRIPTION) and xmlParseMemory.
Parse ==
  /\ pc = "parse"
  /\ \E parsed \in BOOLEAN :
       IF parsed THEN pc' = "collection" /\ UNCHANGED exitcode
       ELSE Exit(2)
  /\ UNCHANGED <<doc, resolver, selection, scanner, buffers, effects>>

\* "//collection" found: its sizeX and sizeY are read and the image loop is
\* set up.
GetCollection ==
  /\ pc = "collection"
  /\ doc.collection # <<>>
  /\ xcollection' = doc.collection[1].sizeX
  /\ ycollection' = doc.collection[1].sizeY
  /\ jj' = 1
  /\ icount' = 0
  /\ pc' = "images"
  /\ UNCHANGED <<doc, exitcode, selection, scanner, buffers, effects>>

\* "//collection" not found: nodeTab[0] of an empty node set is read without
\* a test.  The read is undefined: the process is killed, or it goes on with
\* whatever values the two reads gave.
GetCollectionMissing ==
  /\ pc = "collection"
  /\ doc.collection = <<>>
  /\ \/ /\ pc' = "killed"
        /\ UNCHANGED resolver
     \/ /\ xcollection' \in SizeVals
        /\ ycollection' \in SizeVals
        /\ jj' = 1
        /\ icount' = 0
        /\ pc' = "images"
  /\ UNCHANGED <<doc, exitcode, selection, scanner, buffers, effects>>

(***************************************************************************)
(* The image loop: which TIFF directories are wanted.                      *)
(***************************************************************************)

\* The node set of "//image[j]/view": the view elements of the j-th image,
\* empty when there is no j-th image or it has no view.
XPathView(j) ==
  IF j \in 1..Len(doc.images) THEN doc.images[j].views ELSE <<>>

\* Variant: the node set without the [@r=0] predicate.
XPathDimensionAnyR(j) == doc.images[j].dimensions

\* The node set of "//image[j]/pixels/dimension[@r=0]".
XPathDimension(j) ==
  SelectSeq(doc.images[j].dimensions, LAMBDA d : d.r = 0)

\* The comparison of the view read from nodeTab[0] with the collection.
ViewDiffers(xview, yview) ==
  xview # xcollection /\ yview # ycollection

\* Variant: the loop also ends at an image whose view matches the collection.
LoopContinuesWhileSaved(j) ==
  /\ XPathView(j) # <<>>
  /\ XPathView(j)[1].sizeX # xcollection
  /\ XPathView(j)[1].sizeY # ycollection

\* The condition of the while loop over the images.
LoopContinues(j) == XPathView(j) # <<>>

\* Variant: icount++ outside the if.
NextCountAlways(count, saved) == count + 1

\* icount after one image: icount++ is inside the if.
NextCount(count, saved) == IF saved THEN count + 1 ELSE count

\* One turn of the while loop over the images.
ResolveImage ==
  /\ pc = "images"
  /\ LoopContinues(jj)
  /\ LET xview == XPathView(jj)[1].sizeX
         yview == XPathView(jj)[1].sizeY
         saved == ViewDiffers(xview, yview)
         nodes == XPathDimension(jj)
     IN  /\ IF saved
            THEN /\ channelID' =
                      channelID \o [ii \in 1..Len(nodes) |-> nodes[ii].c]
                 /\ TIFFDirectories' =
                      TIFFDirectories \o [ii \in 1..Len(nodes) |-> nodes[ii].ifd]
                 /\ ImageNo' =
                      ImageNo \o [ii \in 1..Len(nodes) |-> icount]
            ELSE UNCHANGED selection
         /\ icount' = NextCount(icount, saved)
  /\ jj' = jj + 1
  /\ UNCHANGED <<doc, pc, exitcode, xcollection, ycollection,
                 scanner, buffers, effects>>

\* The while loop ends at an empty "//image[jj]/view"; the XML document is
\* freed.
ResolveEnd ==
  /\ pc = "images"
  /\ ~LoopContinues(jj)
  /\ pc' = "readdir"
  /\ UNCHANGED <<doc, exitcode, resolver, selection, scanner, buffers, effects>>

(***************************************************************************)
(* The directory loop: get the data from the container.                    *)
(***************************************************************************)

\* The positions ii of the selection list (counted from 1 here, from 0 in
\* the source) whose directory is dir.
Matches(dir) == {ii \in 1..Len(TIFFDirectories) : TIFFDirectories[ii] = dir}

\* Variant: directory positions counted from 0.
MatchIndexFromZero(dir) ==
  IF Matches(dir - 1) = {} THEN 0
  ELSE CHOOSE ii \in Matches(dir - 1) : \A kk \in Matches(dir - 1) : kk <= ii

\* The for loop over TIFFDirectories: iwrite is the last position whose
\* directory is dir, 0 when there is none (flag_dir stays false).
MatchIndex(dir) ==
  IF Matches(dir) = {} THEN 0
  ELSE CHOOSE ii \in Matches(dir) : \A kk \in Matches(dir) : kk <= ii

\* Variant: an entry that was never reached is an error.
ReturnAtEndChecked ==
  IF \E ii \in 1..Len(TIFFDirectories) : TIFFDirectories[ii] > iTIFFdir
  THEN 3 ELSE 0

\* main's return value after the directory loop.
ReturnAtEnd == 0

\* TIFFReadDirectory succeeds: the next directory becomes current and is
\* looked up in TIFFDirectories.  A directory that is not wanted is passed
\* over (flag_dir is false at the foot of the loop body).
ReadDirectory ==
  /\ pc = "readdir"
  /\ iTIFFdir < MaxDirs
  /\ iTIFFdir' = iTIFFdir + 1
  /\ LET found == MatchIndex(iTIFFdir')
     IN  IF found # 0
         THEN /\ iwrite' = found
              /\ flag_dir' = TRUE
              /\ pc' = "alloc"
         ELSE /\ UNCHANGED <<iwrite, flag_dir>>
              /\ pc' = "readdir"
  /\ UNCHANGED <<doc, exitcode, resolver, selection, buffers, effects>>

\* TIFFReadDirectory fails: there is no further directory.  The container is
\* closed and main returns.
EndOfContainer ==
  /\ pc = "readdir"
  /\ Exit(ReturnAtEnd)
  /\ UNCHANGED <<doc, resolver, selection, scanner, buffers, effects>>

\* _TIFFmalloc of the raster, then new of the plane, then the test of the
\* raster.  new throws when it fails and nothing catches it.
Allocate ==
  /\ pc = "alloc"
  /\ allocated' = Append(allocated, iTIFFdir)
  /\ \E rasterOK \in BOOLEAN, imageOK \in BOOLEAN :
       /\ raster' = IF rasterOK THEN "held" ELSE "null"
       /\ IF ~imageOK
          THEN /\ pc' = "killed"
               /\ UNCHANGED <<image, exitcode>>
          ELSE /\ image' = "held"
               /\ IF rasterOK
                  THEN pc' = "decode" /\ UNCHANGED exitcode
                  ELSE Exit(4)
  /\ UNCHANGED <<doc, resolver, selection, scanner, decoded, files>>

\* TIFFReadRGBAImage and, when it succeeds, the copy of the channel into the
\* plane.
Decode ==
  /\ pc = "decode"
  /\ \E readOK \in BOOLEAN :
       IF readOK
       THEN /\ decoded' = Append(decoded, iTIFFdir)
            /\ pc' = "write"
            /\ UNCHANGED exitcode
       ELSE /\ Exit(3)
            /\ UNCHANGED decoded
  /\ UNCHANGED <<doc, resolver, selection, scanner, buffers, allocated, files>>

\* _TIFFfree of the raster, then the plane is written under the name built
\* from ImageNo[iwrite] and channelID[iwrite].  The state of the stream is
\* not tested: written records whether the file system took the data.
Write ==
  /\ pc = "write"
  /\ raster' = "none"
  /\ \E written \in BOOLEAN :
       files' = Append(files, [dir |-> iTIFFdir,
                               field |-> ImageNo[iwrite],
                               channel |-> channelID[iwrite],
                               written |-> written])
  /\ pc' = "free"
  /\ UNCHANGED <<doc, exitcode, resolver, selection, scanner, image,
                 allocated, decoded>>

\* delete [] of the plane and the foot of the loop body.
Free ==
  /\ pc = "free"
  /\ image' = "none"
  /\ flag_dir' = FALSE
  /\ pc' = "readdir"
  /\ UNCHANGED <<doc, exitcode, resolver, selection, iTIFFdir, iwrite, raster,
                 effects>>

Next ==
  \/ Start
  \/ Open
  \/ Parse
  \/ GetCollection
  \/ GetCollectionMissing
  \/ ResolveImage
  \/ ResolveEnd
  \/ ReadDirectory
  \/ EndOfContainer
  \/ Allocate
  \/ Decode
  \/ Write
  \/ Free

Spec == Init /\ [][Next]_vars

TypeOK ==
  /\ doc \in Documents
  /\ pc \in {"start", "open", "parse", "collection", "images", "readdir",
             "alloc", "decode", "write", "free", "exited", "killed"}
  /\ exitcode \in -1..4
  /\ raster \in {"none", "held", "null"}
  /\ image \in {"none", "held"}
  /\ Len(channelID) = Len(TIFFDirectories)
  /\ Len(ImageNo) = Len(TIFFDirectories)

(***************************************************************************)
(* Properties.                                                             *)
(***************************************************************************)

\* The description has a collection element.
HasCollection == doc.collection # <<>>

\* The image loop has been entered: the collection has been read.
LoopEntered == jj >= 1

\* The image loop has ended.
LoopEnded == jj >= 1 /\ pc # "images"

\* C1: an image is accepted (the field counter advances for it) if and only
\* if at least one of its views, at whatever position, has sizeX different
\* from the collection's sizeX and sizeY different from the collection's
\* sizeY: the counter is the number of examined images with such a view.
C1_AcceptedIffSomeViewDiffers ==
  (HasCollection /\ LoopEntered) =>
    icount = Cardinality({j \in 1..(jj - 1) :
                 \E k \in DOMAIN doc.images[j].views :
                    /\ doc.images[j].views[k].sizeX # xcollection
                    /\ doc.images[j].views[k].sizeY # ycollection})

\* C2: the field counter starts at 0, advances by one for each accepted image
\* and by nothing for a rejected one, and the entries of the k-th accepted
\* image (counted from 0) are all tagged k, however many rejected images come
\* before it.  An image is accepted when the view the loop reads (its first)
\* differs from the collection in both sizeX and sizeY; an image whose only
\* view equals the collection is rejected.
C2_FieldIndexCountsAccepted ==
  LET Accepted(j) ==
        /\ doc.images[j].views[1].sizeX # xcollection
        /\ doc.images[j].views[1].sizeY # ycollection
      Rank(j) == Cardinality({k \in 1..(j - 1) : Accepted(k)})
      Entries(j) ==
        Cardinality({k \in DOMAIN doc.images[j].dimensions :
                       doc.images[j].dimensions[k].r = 0})
      RECURSIVE Tags(_)
      Tags(n) ==
        IF n = 0 THEN <<>>
        ELSE Tags(n - 1) \o
             (IF Accepted(n) THEN [i \in 1..Entries(n) |-> Rank(n)] ELSE <<>>)
  IN  /\ ~LoopEntered => icount = 0 /\ ImageNo = <<>>
      /\ LoopEntered => icount = Rank(jj) /\ ImageNo = Tags(jj - 1)

\* C2 witness: the loop has ended after a rejected image whose only view
\* equals the collection and, later, an accepted image, whose entry is
\* tagged 0.
C2_Witness ==
  /\ LoopEnded
  /\ jj = 3
  /\ Len(doc.images[1].views) = 1
  /\ doc.images[1].views[1].sizeX = xcollection
  /\ doc.images[1].views[1].sizeY = ycollection
  /\ doc.images[2].views[1].sizeX # xcollection
  /\ doc.images[2].views[1].sizeY # ycollection
  /\ doc.collection # <<>>
  /\ ImageNo = <<0>>
  /\ icount = 1

C4_ChannelsOncePerField ==
  HasCollection =>
    /\ \A i \in DOMAIN channelID : channelID[i] \in {0, 1, 2}
    /\ \A i, k \in DOMAIN channelID :
          (i # k /\ ImageNo[i] = ImageNo[k]) => channelID[i] # channelID[k]

\* C5: in the single forward traversal, where the first directory after the
\* metadata directory has position 1, a directory the traversal is done with
\* has been decoded and handed to the writer if and only if some selection
\* entry has its position as directory index; the file name carries the field
\* and channel of such an entry; a directory without entry is neither
\* allocated for nor decoded; no directory is decoded twice, and the
\* decoded positions increase.
C5_DecodedIffSelected ==
  LET Selected(p) ==
        \E ii \in DOMAIN TIFFDirectories : TIFFDirectories[ii] = p
      DoneWith(p) ==
        \/ p < iTIFFdir
        \/ p = iTIFFdir /\ pc = "readdir"
        \/ p = iTIFFdir /\ pc = "exited" /\ exitcode = 0
      Times(seq, p) == Cardinality({i \in DOMAIN seq : seq[i] = p})
      FilesOf(p) == {i \in DOMAIN files : files[i].dir = p}
  IN  /\ \A p \in 1..iTIFFdir :
           /\ Times(decoded, p) <= 1
           /\ Times(allocated, p) <= 1
           /\ Cardinality(FilesOf(p)) <= 1
           /\ ~Selected(p) =>
                /\ Times(allocated, p) = 0
                /\ Times(decoded, p) = 0
                /\ FilesOf(p) = {}
           /\ DoneWith(p) =>
                (Selected(p) <=> (Times(decoded, p) = 1 /\ FilesOf(p) # {}))
      /\ \A i \in DOMAIN files :
           /\ files[i].dir \in 1..iTIFFdir
           /\ \E ii \in DOMAIN TIFFDirectories :
                 /\ TIFFDirectories[ii] = files[i].dir
                 /\ ImageNo[ii] = files[i].field
                 /\ channelID[ii] = files[i].channel
      /\ \A i \in DOMAIN decoded : decoded[i] \in 1..iTIFFdir
      /\ \A i \in DOMAIN allocated : allocated[i] \in 1..iTIFFdir
      /\ \A i, k \in DOMAIN decoded : i < k => decoded[i] < decoded[k]

\* C5 witness: a run has returned 0 after passing over directory 1, which no
\* entry selects, and decoding and writing directory 2, which one does.
C5_Witness ==
  /\ pc = "exited"
  /\ exitcode = 0
  /\ iTIFFdir >= 2
  /\ TIFFDirectories = <<2>>
  /\ decoded = <<2>>
  /\ Len(files) = 1
  /\ files[1].dir = 2
  /\ files[1].written

\* C6: with a description that has no collection element the run ends with
\* exit code 2 (or earlier, with -1 or 1, when the arguments or the container
\* are bad) and writes no file.
C6_NoCollectionExits2 ==
  (Terminated /\ doc.collection = <<>>) =>
    /\ pc = "exited"
    /\ exitcode \in {-1, 1, 2}
    /\ files = <<>>

\* C7: a write that fails stops the run at that directory: no later
\* directory is visited and the run does not end with exit code 0.
C7_WriteFailureIsFatal ==
  HasCollection =>
    \A i \in DOMAIN files :
       ~files[i].written =>
          /\ iTIFFdir = files[i].dir
          /\ ~(pc = "exited" /\ exitcode = 0)

\* C8: when a selection entry's directory index is beyond the last position
\* the traversal reached and no decode or allocation failed, the run has
\* returned 0, no file exists for a directory beyond that position, and every
\* entry whose directory was reached has its directory written.
C8_UnreachedEntryIsSilent ==
  LET Beyond == {ii \in DOMAIN TIFFDirectories : TIFFDirectories[ii] > iTIFFdir}
      Faulted == \E i \in DOMAIN allocated :
                    \A k \in DOMAIN files : files[k].dir # allocated[i]
  IN  (Terminated /\ Beyond # {} /\ ~Faulted) =>
        /\ pc = "exited"
        /\ exitcode = 0
        /\ \A ii \in Beyond :
              \A k \in DOMAIN files : files[k].dir # TIFFDirectories[ii]
        /\ \A ii \in DOMAIN TIFFDirectories :
              ii \notin Beyond =>
                \E k \in DOMAIN files : files[k].dir = TIFFDirectories[ii]

\* C8 witness: a run has returned 0 with the entry for directory 2 never
\* reached and the entry for directory 1 written.
C8_Witness ==
  /\ pc = "exited"
  /\ exitcode = 0
  /\ iTIFFdir = 1
  /\ \E ii \in DOMAIN TIFFDirectories : TIFFDirectories[ii] = 2
  /\ Len(files) = 1
  /\ files[1].dir = 1

\* C9: no buffer is held when the scanner is about to advance to the next
\* directory or when the process has ended, on whichever path.
C9_BuffersReleased ==
  (HasCollection /\ (pc = "readdir" \/ Terminated)) =>
    (raster # "held" /\ image # "held")

====
